---- MODULE Spec2Model ----
(***************************************************************************)
(* captum/attr/_utils/common.py: the input / baseline canonicalisation,    *)
(* validation and aggregation helpers of the attribution algorithms.       *)
(*                                                                         *)
(* Every helper is a synchronous function.  The model is a caller that, in *)
(* one step, picks the arguments of one helper and runs it to completion   *)
(* (its return value or the exception it raises, and the calls it made to  *)
(* caller-supplied functions), and then returns to idle.                   *)
(*                                                                         *)
(* Python values are records tagged by their type ("kind").  A tensor is   *)
(* its shape, a sequence of dimension sizes; _reshape_and_sum, which is    *)
(* about numbers, carries the elements as well.  Tensors are not empty     *)
(* (every dimension is at least 1), and input, baseline and mask tensors   *)
(* have a batch dimension (rank at least 1); a model output may have rank  *)
(* 0.  A feature mask is None or a tuple of mask tensors.                  *)
(***************************************************************************)
EXTENDS Integers, Sequences, FiniteSets

VARIABLES pc, op, args, ret, calls

vars == <<pc, op, args, ret, calls>>

(* ------------------------------ bounds -------------------------------- *)

\* Longest tuple of tensors / baselines / strides the caller passes.
MaxLen == 2

\* Largest batch (leading) dimension of a tensor.
MaxBatch == 2

\* Largest rank and dimension of a model output (initial_eval).
MaxRank == 2

MaxDim == 2

\* Largest batch size and perturbations_per_eval of the output-mode check.
MaxExamples == 5

MaxPerturb == 2

\* Largest declared parameter count of a caller-supplied function.
MaxParams == 4

\* Integration steps, examples, feature count and values of _reshape_and_sum's
\* tensor.
MaxSteps == 3

MaxRows == 2

MaxFeat == 4

MaxVal == 2

(* --------------------------- Python values ---------------------------- *)

NoneV == [kind |-> "None"]

IntV(v) == [kind |-> "int", val |-> v]

FloatV(v) == [kind |-> "float", val |-> v]

StrV == [kind |-> "str"]

Tensor(s) == [kind |-> "tensor", shape |-> s]

Tuple(s) == [kind |-> "tuple", items |-> s]

\* A caller-supplied function: its declared parameter count (what
\* inspect.signature reports) and what a call of it does.
Callable(n, r, e) == [kind |-> "callable", nparams |-> n, returns |-> r, raises |-> e]

IsNumber(v) == v.kind \in {"int", "float"}

IsTensor(v) == v.kind = "tensor"

IsTuple(v) == v.kind = "tuple"

IsCallable(v) == v.kind = "callable"

Ok(v) == [status |-> "ok", value |-> v, msg |-> ""]

Raise(e, m) == [status |-> e, value |-> NoneV, msg |-> m]

\* Sequences over S of length lo..hi.
SeqsOf(S, lo, hi) == UNION {[1..n -> S] : n \in lo..hi}

\* shape[1:]
NonBatch(s) == SubSeq(s, 2, Len(s))

NonBatchShapes == {<<>>, <<2>>}

\* Shapes of input, baseline and mask tensors: a batch dimension, then the
\* per-example shape.
TensorShapes == {<<b>> \o nb : b \in 1..MaxBatch, nb \in NonBatchShapes}

Tensors == {Tensor(s) : s \in TensorShapes}

\* A float's val is in hundredths: FloatV(37) is 0.37.
Scalars == {IntV(0), FloatV(37)}

(* ----------------------------- validation ----------------------------- *)

SUPPORTED_METHODS == {"riemann_trapezoid", "gausslegendre"}

Methods == {"riemann_trapezoid", "unsupported"}

StepCounts == {-1, 0, 1}

\* ShapeCheck with the batch-of-one baseline refused.
M_ShapeCheck(input, baseline, draw_baseline_from_distrib) ==
    IF draw_baseline_from_distrib
    THEN \/ IsNumber(baseline)
         \/ NonBatch(input.shape) = NonBatch(baseline.shape)
    ELSE \/ IsNumber(baseline)
         \/ input.shape = baseline.shape

\* The assertion of the loop body, for one (input, baseline) pair.
ShapeCheck(input, baseline, draw_baseline_from_distrib) ==
    IF draw_baseline_from_distrib
    THEN \/ IsNumber(baseline)
         \/ NonBatch(input.shape) = NonBatch(baseline.shape)
    ELSE \/ IsNumber(baseline)
         \/ input.shape = baseline.shape
         \/ baseline.shape[1] = 1

_validate_input(inputs, baselines, n_steps, method, draw_baseline_from_distrib) ==
    IF Len(inputs) # Len(baselines)
    THEN Raise("AssertionError", "Input and baseline must have the same dimensions")
    ELSE IF \E i \in 1..Len(inputs) :
                ~ShapeCheck(inputs[i], baselines[i], draw_baseline_from_distrib)
    THEN Raise("AssertionError", "input and baseline shapes do not match")
    ELSE IF ~(n_steps >= 0)
    THEN Raise("AssertionError", "The number of steps must be a positive integer")
    ELSE IF method \notin SUPPORTED_METHODS
    THEN Raise("AssertionError", "Approximation method must be one for the following")
    ELSE Ok(NoneV)

(* ------------------------- baseline to tensor ------------------------- *)

\* torch.cat([baseline] * n): the batch dimensions add up.
Cat(baseline, n) == Tensor(<<n * baseline.shape[1]>> \o NonBatch(baseline.shape))

_tensorize_single_baseline(baseline, input) ==
    IF IsNumber(baseline) THEN Tensor(input.shape)
    ELSE IF input.shape[1] > baseline.shape[1] /\ baseline.shape[1] = 1
    THEN Cat(baseline, input.shape[1])
    ELSE baseline

Min(a, b) == IF a < b THEN a ELSE b

_tensorize_baseline(inputs, baselines) ==
    Ok([i \in 1..Min(Len(inputs), Len(baselines)) |->
            _tensorize_single_baseline(baselines[i], inputs[i])])

(* ------------------------- baseline formatting ------------------------ *)

\* Shared primitive of captum/_utils/common.py: a bare tensor is promoted to a
\* length-1 tuple, a tuple is returned as it is.
_format_input(inputs) ==
    IF IsTuple(inputs) THEN inputs ELSE Tuple(<<inputs>>)

\* _zeros returning a single 0 whatever the number of inputs.
M__zeros(inputs) == Tuple(<<IntV(0)>>)

_zeros(inputs) == Tuple([i \in 1..Len(inputs.items) |-> IntV(0)])

_format_baseline(baselines, inputs) ==
    IF baselines.kind = "None" THEN Ok(_zeros(inputs))
    ELSE LET b == IF ~IsTuple(baselines) THEN Tuple(<<baselines>>) ELSE baselines
         IN  IF \E i \in 1..Len(b.items) : ~(IsTensor(b.items[i]) \/ IsNumber(b.items[i]))
             THEN Raise("AssertionError",
                        "baseline input argument must be either a torch.Tensor or a number")
             ELSE Ok(b)

_format_input_baseline(inputs, baselines) ==
    LET fi == _format_input(inputs)
        fb == _format_baseline(baselines, fi)
    IN  IF fb.status = "ok" THEN Ok(<<fi, fb.value>>) ELSE fb

\* The callable handed the formatted inputs instead of the caller's.
M_BaselineCallArgs(baselines, inputs) ==
    IF baselines.nparams = 0 THEN <<>> ELSE <<_format_input(inputs)>>

\* The arguments a callable baseline is called with.
BaselineCallArgs(baselines, inputs) ==
    IF baselines.nparams = 0 THEN <<>> ELSE <<inputs>>

\* What the callable's return value is handed to.
FormatReturned(returned, inputs) == _format_baseline(returned, _format_input(inputs))

\* [ret: the result, calls: the calls made of the callable, in order]
_format_callable_baseline(baselines, inputs) ==
    IF IsCallable(baselines)
    THEN [ret   |-> FormatReturned(baselines.returns, inputs),
          calls |-> <<[fn |-> baselines, args |-> BaselineCallArgs(baselines, inputs)]>>]
    ELSE [ret   |-> _format_baseline(baselines, _format_input(inputs)),
          calls |-> <<>>]

\* The caller's values.
FmtTensors == {Tensor(<<b>>) : b \in 1..MaxBatch}

BaselineElems == FmtTensors \cup Scalars \cup {StrV}

\* Absent, a bare value, or a tuple of at least one element.
PlainBaselines ==
    {NoneV} \cup BaselineElems \cup {Tuple(s) : s \in SeqsOf(BaselineElems, 1, MaxLen)}

CallableBaselines ==
    LET inner == {Callable(n, NoneV, FALSE) : n \in 0..1}
    IN  inner \cup {Callable(n, r, FALSE) : n \in 0..2, r \in PlainBaselines \cup inner}

InputTuples == {Tuple(s) : s \in SeqsOf(FmtTensors, 1, MaxLen)}

RawInputs == FmtTensors \cup InputTuples

(* ----------------------------- output mode ----------------------------- *)

RECURSIVE Numel(_)
\* The number of elements of a tensor of shape s.
Numel(s) == IF Len(s) = 0 THEN 1 ELSE Head(s) * Numel(Tail(s))

\* The condition of the first branch with the batch-size test left out.
M_AggDetected(initial_eval, num_examples) ==
    \/ IsNumber(initial_eval)
    \/ /\ IsTensor(initial_eval)
       /\ \/ Len(initial_eval.shape) = 0
          \/ Numel(initial_eval.shape) = 1

\* The condition of the first branch: the model returned one value for the
\* whole batch.
AggDetected(initial_eval, num_examples) ==
    \/ IsNumber(initial_eval)
    \/ /\ IsTensor(initial_eval)
       /\ \/ Len(initial_eval.shape) = 0
          \/ num_examples > 1 /\ Numel(initial_eval.shape) = 1

\* The aggregate branch with the feature-mask loop left out.
M_AggModeVerify(perturbations_per_eval, feature_mask) ==
    IF perturbations_per_eval # 1
    THEN Raise("AssertionError",
               "Cannot have perturbations_per_eval > 1 when function returns scalar.")
    ELSE Ok(TRUE)

\* The aggregate branch.
AggModeVerify(perturbations_per_eval, feature_mask) ==
    IF perturbations_per_eval # 1
    THEN Raise("AssertionError",
               "Cannot have perturbations_per_eval > 1 when function returns scalar.")
    ELSE IF /\ feature_mask.kind # "None"
            /\ \E i \in 1..Len(feature_mask.items) : feature_mask.items[i].shape[1] # 1
    THEN Raise("AssertionError",
               "Cannot provide different masks for each example when function returns a scalar.")
    ELSE Ok(TRUE)

_find_output_mode_and_verify(initial_eval, num_examples, perturbations_per_eval, feature_mask) ==
    IF AggDetected(initial_eval, num_examples)
    THEN AggModeVerify(perturbations_per_eval, feature_mask)
    ELSE IF ~(IsTensor(initial_eval) /\ Numel(Tail(initial_eval.shape)) = 1)
    THEN Raise("AssertionError",
               "Target should identify a single element in the model output.")
    ELSE Ok(FALSE)

EvalShapes == SeqsOf(1..MaxDim, 0, MaxRank)

EvalValues == Scalars \cup {StrV} \cup {Tensor(s) : s \in EvalShapes}

FeatureMasks == {NoneV} \cup {Tuple(s) : s \in SeqsOf(Tensors, 0, MaxLen)}

(* ------------------------ custom attribution func --------------------- *)

\* The two-parameter call handed the baselines instead of the inputs.
M_CustomCallArgs(n, multipliers, inputs, baselines) ==
    IF n = 1 THEN <<multipliers>>
    ELSE IF n = 2 THEN <<multipliers, baselines>>
    ELSE <<multipliers, inputs, baselines>>

\* The arguments of the call, by the declared parameter count n in 1..3.
CustomCallArgs(n, multipliers, inputs, baselines) ==
    IF n = 1 THEN <<multipliers>>
    ELSE IF n = 2 THEN <<multipliers, inputs>>
    ELSE <<multipliers, inputs, baselines>>

\* A call of a caller-supplied function: its value, or the exception it raises.
Invoke(f) == IF f.raises THEN Raise("CalleeError", "raised by the callable") ELSE Ok(f.returns)

_call_custom_attribution_func(custom_attribution_func, multipliers, inputs, baselines) ==
    IF ~IsCallable(custom_attribution_func)
    THEN [ret   |-> Raise("AssertionError",
                          "custom_attribution_func must be a callable function"),
          calls |-> <<>>]
    ELSE IF custom_attribution_func.nparams \in {1, 2, 3}
    THEN [ret   |-> Invoke(custom_attribution_func),
          calls |-> <<[fn   |-> custom_attribution_func,
                       args |-> CustomCallArgs(custom_attribution_func.nparams,
                                               multipliers, inputs, baselines)]>>]
    ELSE [ret   |-> Raise("AssertionError",
                          "custom_attribution_func must take at least one and at most 3 arguments."),
          calls |-> <<>>]

OneTuples == {Tuple(<<t>>) : t \in Tensors}

CustomFuncs ==
    {NoneV, IntV(0)} \cup
    {Callable(n, Tuple(<<t>>), e) : n \in 0..MaxParams, t \in FmtTensors, e \in BOOLEAN}

(* ---------------------------- result finalizer ------------------------ *)

\* _format_attributions without the length assertion.
M_format_attributions(is_inputs_tuple, attributions) ==
    IF ~IsTuple(attributions)
    THEN Raise("AssertionError", "Attributions must be in shape of a tuple")
    ELSE IF ~is_inputs_tuple /\ Len(attributions.items) = 0
    THEN Raise("IndexError", "tuple index out of range")
    ELSE Ok(IF is_inputs_tuple THEN attributions ELSE attributions.items[1])

_format_attributions(is_inputs_tuple, attributions) ==
    IF ~IsTuple(attributions)
    THEN Raise("AssertionError", "Attributions must be in shape of a tuple")
    ELSE IF ~(is_inputs_tuple \/ Len(attributions.items) = 1)
    THEN Raise("AssertionError",
               "The input is a single tensor however the attributions aren't.")
    ELSE Ok(IF is_inputs_tuple THEN attributions ELSE attributions.items[1])

\* attr_algo.compute_convergence_delta is external: attr_algo.delta is what it
\* returns.
_compute_conv_delta_and_format_attrs(attr_algo, return_convergence_delta, attributions, start_point, end_point, additional_forward_args, target, is_inputs_tuple) ==
    IF return_convergence_delta
    THEN LET fa == _format_attributions(is_inputs_tuple, attributions)
         IN  [ret   |-> IF fa.status = "ok" THEN Ok(<<fa.value, attr_algo.delta>>) ELSE fa,
              calls |-> <<[fn   |-> "compute_convergence_delta",
                           args |-> <<attributions, start_point, end_point,
                                      additional_forward_args, target>>]>>]
    ELSE [ret   |-> _format_attributions(is_inputs_tuple, attributions),
          calls |-> <<>>]

AttributionValues == Tensors \cup {Tuple(s) : s \in SeqsOf(Tensors, 0, MaxLen)}

AttrAlgos == {[kind |-> "GradientAttribution", delta |-> t] : t \in FmtTensors}

(* -------------------------------- strides ----------------------------- *)

\* The promotion applied to non-tuples only.
M_NormalizeStrides(strides, inputs) ==
    LET s1 == IF strides.kind = "None"
              THEN Tuple([i \in 1..Len(inputs) |-> IntV(1)])
              ELSE strides
    IN  IF Len(inputs) = 1 /\ ~IsTuple(s1) THEN Tuple(<<s1>>) ELSE s1

\* The default and the promotion to a tuple.
NormalizeStrides(strides, inputs) ==
    LET s1 == IF strides.kind = "None"
              THEN Tuple([i \in 1..Len(inputs) |-> IntV(1)])
              ELSE strides
    IN  IF Len(inputs) = 1 /\ ~(IsTuple(s1) /\ Len(s1.items) = 1)
        THEN Tuple(<<s1>>)
        ELSE s1

\* The assertion of the loop body.
StrideEntryOk(entry, input) ==
    \/ entry.kind = "int"
    \/ IsTuple(entry) /\ Len(entry.items) = Len(input.shape) - 1

_format_and_verify_strides(strides, inputs) ==
    LET s == NormalizeStrides(strides, inputs)
    IN  IF ~(IsTuple(s) /\ Len(s.items) = Len(inputs))
        THEN Raise("AssertionError", "Strides must be provided for each input tensor.")
        ELSE IF \E i \in 1..Len(inputs) : ~StrideEntryOk(s.items[i], inputs[i])
        THEN Raise("AssertionError", "Stride for input index is invalid for input")
        ELSE Ok(s)

\* Inputs of non-batch rank 0..MaxRank.
StrideInputs == {Tensor([i \in 1..r |-> 2]) : r \in 1..(MaxRank + 1)}

StrideInts == {IntV(2), IntV(3)}

StrideEntries ==
    StrideInts \cup {FloatV(37)} \cup {Tuple(s) : s \in SeqsOf({IntV(2)}, 0, MaxRank)}

\* Absent, a bare value, or a tuple of at least one entry.
StrideValues ==
    {NoneV} \cup StrideInts \cup {FloatV(37)} \cup
    {Tuple(s) : s \in SeqsOf(StrideEntries, 1, MaxLen)}

(* --------------------------- reshape and sum -------------------------- *)

\* A tensor with its elements, in row-major (C-contiguous) order.
DataTensor(s, d) == [kind |-> "tensor", shape |-> s, data |-> d]

RECURSIVE SumTo(_, _)
\* f[1] + ... + f[n]
SumTo(f, n) == IF n = 0 THEN 0 ELSE f[n] + SumTo(f, n - 1)

\* tensor.reshape(shape): the same elements in the same order.
Reshape(t, shape) ==
    IF Numel(shape) # Numel(t.shape)
    THEN Raise("RuntimeError", "shape is invalid for input size")
    ELSE Ok(DataTensor(shape, t.data))

\* The sum taken over dimension 1 of the reshaped tensor's leading two.
M_SumDim0(t) ==
    LET n     == Head(t.shape)
        inner == Numel(Tail(t.shape))
    IN  DataTensor(Tail(t.shape),
                   [j \in 1..inner |->
                       SumTo([k \in 1..n |-> t.data[((j - 1) * n) + k]], n)])

\* torch.sum(t, dim=0)
SumDim0(t) ==
    LET n     == Head(t.shape)
        inner == Numel(Tail(t.shape))
    IN  DataTensor(Tail(t.shape),
                   [j \in 1..inner |->
                       SumTo([k \in 1..n |-> t.data[((k - 1) * inner) + j]], n)])

_reshape_and_sum(tensor_input, num_steps, num_examples, layer_size) ==
    LET r == Reshape(tensor_input, <<num_steps, num_examples>> \o layer_size)
    IN  IF r.status = "ok" THEN Ok(SumDim0(r.value)) ELSE r

LayerSizes == {<<k>> : k \in 1..MaxFeat} \cup {<<2, 2>>}

\* The flat tensors tried: one element set and the rest 0, or element i = i.
FlatData(n) ==
    {[i \in 1..n |-> IF i = p THEN v ELSE 0] : p \in 1..n, v \in 1..MaxVal}
    \cup {[i \in 1..n |-> i]}

(* ------------------------------ the caller ---------------------------- *)

Init ==
    /\ pc = "idle"
    /\ op = "none"
    /\ args = NoneV
    /\ ret = Ok(NoneV)
    /\ calls = <<>>

Done(name, a, r, c) ==
    /\ pc' = "done"
    /\ op' = name
    /\ args' = a
    /\ ret' = r
    /\ calls' = c

CallValidateInput ==
    /\ pc = "idle"
    /\ \E n \in 0..MaxLen, m \in 0..MaxLen :
      \E inputs \in [1..n -> Tensors], baselines \in [1..m -> Tensors \cup Scalars] :
        \E n_steps \in StepCounts, method \in Methods, distrib \in BOOLEAN :
          Done("_validate_input",
               [inputs |-> inputs, baselines |-> baselines, n_steps |-> n_steps,
                method |-> method, draw_baseline_from_distrib |-> distrib],
               _validate_input(inputs, baselines, n_steps, method, distrib),
               <<>>)

\* The attribution algorithms tensorize the baselines they validated (outside
\* distribution-draw mode).
CallTensorizeBaseline ==
    /\ pc = "done"
    /\ op = "_validate_input"
    /\ ret.status = "ok"
    /\ ~args.draw_baseline_from_distrib
    /\ op' = "_tensorize_baseline"
    /\ ret' = _tensorize_baseline(args.inputs, args.baselines)
    /\ UNCHANGED <<pc, args, calls>>

CallFormatBaseline ==
    /\ pc = "idle"
    /\ \E baselines \in PlainBaselines, inputs \in InputTuples :
          Done("_format_baseline",
               [baselines |-> baselines, inputs |-> inputs],
               _format_baseline(baselines, inputs),
               <<>>)

CallFormatInputBaseline ==
    /\ pc = "idle"
    /\ \E inputs \in RawInputs, baselines \in PlainBaselines :
          Done("_format_input_baseline",
               [baselines |-> baselines, inputs |-> inputs],
               _format_input_baseline(inputs, baselines),
               <<>>)

CallFormatCallableBaseline ==
    /\ pc = "idle"
    /\ \E baselines \in PlainBaselines \cup CallableBaselines, inputs \in RawInputs :
          LET r == _format_callable_baseline(baselines, inputs)
          IN  Done("_format_callable_baseline",
                   [baselines |-> baselines, inputs |-> inputs],
                   r.ret, r.calls)

CallFindOutputMode ==
    /\ pc = "idle"
    /\ \E initial_eval \in EvalValues, num_examples \in 1..MaxExamples,
          perturbations_per_eval \in 1..MaxPerturb, feature_mask \in FeatureMasks :
          Done("_find_output_mode_and_verify",
               [initial_eval |-> initial_eval, num_examples |-> num_examples,
                perturbations_per_eval |-> perturbations_per_eval,
                feature_mask |-> feature_mask],
               _find_output_mode_and_verify(initial_eval, num_examples,
                                            perturbations_per_eval, feature_mask),
               <<>>)

CallCustomAttributionFunc ==
    /\ pc = "idle"
    /\ \E f \in CustomFuncs, multipliers \in OneTuples, inputs \in OneTuples,
          baselines \in OneTuples :
          LET r == _call_custom_attribution_func(f, multipliers, inputs, baselines)
          IN  Done("_call_custom_attribution_func",
                   [custom_attribution_func |-> f, multipliers |-> multipliers,
                    inputs |-> inputs, baselines |-> baselines],
                   r.ret, r.calls)

CallFormatAttributions ==
    /\ pc = "idle"
    /\ \E is_inputs_tuple \in BOOLEAN, attributions \in AttributionValues :
          Done("_format_attributions",
               [is_inputs_tuple |-> is_inputs_tuple, attributions |-> attributions],
               _format_attributions(is_inputs_tuple, attributions),
               <<>>)

CallComputeConvDelta ==
    /\ pc = "idle"
    /\ \E attr_algo \in AttrAlgos, return_convergence_delta \in BOOLEAN,
          attributions \in AttributionValues, start_point \in Scalars,
          is_inputs_tuple \in BOOLEAN :
          LET a == [attr_algo |-> attr_algo,
                    return_convergence_delta |-> return_convergence_delta,
                    attributions |-> attributions, start_point |-> start_point,
                    end_point |-> attributions, additional_forward_args |-> NoneV,
                    target |-> NoneV, is_inputs_tuple |-> is_inputs_tuple]
              r == _compute_conv_delta_and_format_attrs(
                       attr_algo, return_convergence_delta, attributions, start_point,
                       a.end_point, a.additional_forward_args, a.target, is_inputs_tuple)
          IN  Done("_compute_conv_delta_and_format_attrs", a, r.ret, r.calls)

CallFormatStrides ==
    /\ pc = "idle"
    /\ \E strides \in StrideValues, inputs \in SeqsOf(StrideInputs, 0, MaxLen) :
          Done("_format_and_verify_strides",
               [strides |-> strides, inputs |-> inputs],
               _format_and_verify_strides(strides, inputs),
               <<>>)

CallReshapeAndSum ==
    /\ pc = "idle"
    /\ \E num_steps \in 1..MaxSteps, num_examples \in 1..MaxRows, layer_size \in LayerSizes :
          \E d \in FlatData(num_steps * num_examples * Numel(layer_size)) :
             LET t == DataTensor(<<num_steps * num_examples>> \o layer_size, d)
             IN  Done("_reshape_and_sum",
                      [tensor_input |-> t, num_steps |-> num_steps,
                       num_examples |-> num_examples, layer_size |-> layer_size],
                      _reshape_and_sum(t, num_steps, num_examples, layer_size),
                      <<>>)

Return ==
    /\ pc = "done"
    /\ pc' = "idle"
    /\ op' = "none"
    /\ args' = NoneV
    /\ ret' = Ok(NoneV)
    /\ calls' = <<>>

Next ==
    \/ CallValidateInput
    \/ CallTensorizeBaseline
    \/ CallFormatBaseline
    \/ CallFormatInputBaseline
    \/ CallFormatCallableBaseline
    \/ CallFindOutputMode
    \/ CallCustomAttributionFunc
    \/ CallFormatAttributions
    \/ CallComputeConvDelta
    \/ CallFormatStrides
    \/ CallReshapeAndSum
    \/ Return

Spec == Init /\ [][Next]_vars

(* ------------------------------- claims ------------------------------- *)

IsDone(name) == pc = "done" /\ op = name

\* C1: the per-position rule in the claim's words.
C1_PositionOk(x, b, distrib) ==
    \/ b.kind \in {"int", "float"}
    \/ distrib /\ SubSeq(b.shape, 2, Len(b.shape)) = SubSeq(x.shape, 2, Len(x.shape))
    \/ ~distrib /\ (b.shape = x.shape \/ b.shape[1] = 1)

C1_ChecksPass ==
    /\ Len(args.inputs) = Len(args.baselines)
    /\ \A i \in 1..Len(args.inputs) :
          C1_PositionOk(args.inputs[i], args.baselines[i], args.draw_baseline_from_distrib)
    /\ args.n_steps >= 0
    /\ args.method \in SUPPORTED_METHODS

C1_Mismatch(x, b) == IsTensor(b) /\ b.shape # x.shape /\ b.shape[1] # 1

\* C1: _validate_input returns normally exactly when the four checks pass
\* (equal lengths, the per-position shape rule, n_steps >= 0, a supported
\* method) and otherwise raises an assertion failure, calling nothing; outside
\* distribution-draw mode a position whose tensor baseline differs in shape
\* from the input and has a batch dimension other than 1 is rejected.
C1_ValidateIffChecks ==
    IsDone("_validate_input") =>
        /\ (ret.status = "ok") <=> C1_ChecksPass
        /\ ret.status \in {"ok", "AssertionError"}
        /\ ret.value = NoneV
        /\ calls = <<>>
        /\ ( /\ ~args.draw_baseline_from_distrib
             /\ \E i \in 1..Min(Len(args.inputs), Len(args.baselines)) :
                   C1_Mismatch(args.inputs[i], args.baselines[i]) )
           => ret.status = "AssertionError"

\* C1 witness: a pair rejected for its shapes alone.
C1_Witness ==
    /\ IsDone("_validate_input")
    /\ ~args.draw_baseline_from_distrib
    /\ Len(args.inputs) = Len(args.baselines)
    /\ \E i \in 1..Len(args.inputs) : C1_Mismatch(args.inputs[i], args.baselines[i])
    /\ args.n_steps >= 0
    /\ args.method \in SUPPORTED_METHODS
    /\ ret.status = "AssertionError"

C2_Premise(x, b) == IsTensor(b) /\ b.shape[1] = 1 /\ x.shape[1] > 1

\* C2: outside distribution-draw mode, for every tensor baseline b with batch
\* dimension 1 and every input x with batch dimension n > 1, _validate_input
\* accepts (x, b) and _tensorize_baseline((x,), (b,)) has x's shape.
C2_BroadcastToInputShape ==
    /\ ( /\ IsDone("_validate_input")
         /\ ~args.draw_baseline_from_distrib
         /\ Len(args.inputs) = 1 /\ Len(args.baselines) = 1
         /\ C2_Premise(args.inputs[1], args.baselines[1])
         /\ args.n_steps >= 0
         /\ args.method \in SUPPORTED_METHODS )
       => ret.status = "ok"
    /\ ( /\ IsDone("_tensorize_baseline")
         /\ Len(args.inputs) = 1 /\ Len(args.baselines) = 1
         /\ C2_Premise(args.inputs[1], args.baselines[1]) )
       => /\ ret.status = "ok"
          /\ Len(ret.value) = 1
          /\ ret.value[1].shape = args.inputs[1].shape

FormatOps == {"_format_baseline", "_format_input_baseline", "_format_callable_baseline"}

\* The baseline tuple a formatter returned.
FormattedBaselines ==
    IF op = "_format_input_baseline" THEN ret.value[2] ELSE ret.value

\* The baseline value that reaches _format_baseline.
GivenBaseline ==
    IF op = "_format_callable_baseline" /\ IsCallable(args.baselines)
    THEN args.baselines.returns
    ELSE args.baselines

NumInputs == Len(_format_input(args.inputs).items)

AllTensorsOrNumbers(s) == \A i \in 1..Len(s) : s[i].kind \in {"tensor", "int", "float"}

\* C3 as stated: whenever a baseline formatter returns normally its result is
\* a tuple with exactly one element per input position, each a tensor or a
\* number.
C3_AlignedWithInputs ==
    (pc = "done" /\ op \in FormatOps /\ ret.status = "ok") =>
        /\ IsTuple(FormattedBaselines)
        /\ AllTensorsOrNumbers(FormattedBaselines.items)
        /\ Len(FormattedBaselines.items) = NumInputs

\* C3 amended: whenever a baseline formatter returns normally its result is a
\* tuple of tensors and numbers: NumInputs integer zeros for an absent
\* baseline, the length-1 tuple of a bare tensor or scalar, the caller's own
\* tuple (whatever its length) when all its elements are tensors or numbers;
\* a bare value or tuple element of another type is an assertion failure.
C3_FormatterResult ==
    (pc = "done" /\ op \in FormatOps) =>
        /\ ret.status \in {"ok", "AssertionError"}
        /\ ret.status = "ok" =>
              /\ IsTuple(FormattedBaselines)
              /\ AllTensorsOrNumbers(FormattedBaselines.items)
        /\ GivenBaseline.kind = "None" =>
              /\ ret.status = "ok"
              /\ Len(FormattedBaselines.items) = NumInputs
              /\ \A i \in 1..NumInputs : FormattedBaselines.items[i] = IntV(0)
        /\ GivenBaseline.kind = "tuple" =>
              IF AllTensorsOrNumbers(GivenBaseline.items)
              THEN ret.status = "ok" /\ FormattedBaselines = GivenBaseline
              ELSE ret.status = "AssertionError"
        /\ GivenBaseline.kind \notin {"None", "tuple"} =>
              IF GivenBaseline.kind \in {"tensor", "int", "float"}
              THEN /\ ret.status = "ok"
                   /\ FormattedBaselines.items = <<GivenBaseline>>
              ELSE ret.status = "AssertionError"

\* C3 witness: a caller tuple returned with a length other than the number of
\* inputs.
C3_Witness ==
    /\ pc = "done" /\ op \in FormatOps
    /\ ret.status = "ok"
    /\ GivenBaseline.kind = "tuple"
    /\ Len(FormattedBaselines.items) # NumInputs

\* C4 as stated: a callable baseline is invoked exactly once, with no
\* arguments when it declares none and otherwise with the formatted inputs (a
\* bare tensor promoted to a length-1 tuple), and its return value is formatted
\* through _format_callable_baseline again.
C4_CalledWithFormattedInputs ==
    (IsDone("_format_callable_baseline") /\ IsCallable(args.baselines)) =>
        /\ Len(calls) = 1
        /\ calls[1].fn = args.baselines
        /\ calls[1].args = IF args.baselines.nparams = 0
                           THEN <<>>
                           ELSE <<_format_input(args.inputs)>>
        /\ ret = _format_callable_baseline(args.baselines.returns, args.inputs).ret

\* C4 amended: a callable baseline is invoked exactly once, with no arguments
\* when it declares none and otherwise with the inputs as the caller gave
\* them (a bare tensor stays bare); its return value goes to _format_baseline,
\* not through the callable branch again: a returned None, tensor, scalar or
\* tuple is handled as if passed directly, a returned callable is not called
\* and is an assertion failure.
C4_CalledWithRawInputs ==
    (IsDone("_format_callable_baseline") /\ IsCallable(args.baselines)) =>
        /\ Len(calls) = 1
        /\ calls[1].fn = args.baselines
        /\ calls[1].args = IF args.baselines.nparams = 0 THEN <<>> ELSE <<args.inputs>>
        /\ IF IsCallable(args.baselines.returns)
           THEN ret.status = "AssertionError"
           ELSE ret = _format_callable_baseline(args.baselines.returns, args.inputs).ret

\* C4 witness: a one-parameter callable called with a bare tensor.
C4_Witness ==
    /\ IsDone("_format_callable_baseline")
    /\ IsCallable(args.baselines)
    /\ args.baselines.nparams = 1
    /\ IsTensor(args.inputs)
    /\ Len(calls) = 1
    /\ calls[1].args = <<args.inputs>>
    /\ ret.status = "ok"

\* The claim's aggregate-mode condition on (initial_eval, num_examples).
C5_Aggregate ==
    LET e == args.initial_eval
    IN  \/ e.kind \in {"int", "float"}
        \/ e.kind = "tensor" /\ Len(e.shape) = 0
        \/ e.kind = "tensor" /\ Numel(e.shape) = 1 /\ args.num_examples > 1

\* The first slice of initial_eval along dimension 0 holds exactly one element.
C5_FirstSliceSingle ==
    LET e == args.initial_eval
    IN  e.kind = "tensor" /\ Len(e.shape) >= 1 /\ Numel(SubSeq(e.shape, 2, Len(e.shape))) = 1

TargetFailure ==
    Raise("AssertionError", "Target should identify a single element in the model output.")

\* C5: when _find_output_mode_and_verify returns, it returns true exactly when
\* initial_eval is a plain number, a 0-dimensional tensor, or a one-element
\* tensor with num_examples > 1; otherwise it returns false when the first
\* slice along dimension 0 holds exactly one element and raises the
\* single-output-element failure when not.  A one-element tensor of rank >= 1
\* with num_examples = 1 is per-example; (0.37, 5, 1, None) returns true.
C5_OutputMode ==
    IsDone("_find_output_mode_and_verify") =>
        /\ ret.status = "ok" => (ret.value = TRUE <=> C5_Aggregate)
        /\ ~C5_Aggregate => ret = IF C5_FirstSliceSingle THEN Ok(FALSE) ELSE TargetFailure
        /\ ( /\ args.initial_eval.kind = "tensor"
             /\ Len(args.initial_eval.shape) >= 1
             /\ Numel(args.initial_eval.shape) = 1
             /\ args.num_examples = 1 )
           => ret = Ok(FALSE)
        /\ ( /\ args.initial_eval = FloatV(37)
             /\ args.num_examples = 5
             /\ args.perturbations_per_eval = 1
             /\ args.feature_mask = NoneV )
           => ret = Ok(TRUE)

\* C5 witness: the scenario (0.37, 5, 1, None), returning aggregate mode.
C5_Witness ==
    /\ IsDone("_find_output_mode_and_verify")
    /\ args.initial_eval = FloatV(37)
    /\ args.num_examples = 5
    /\ args.perturbations_per_eval = 1
    /\ args.feature_mask = NoneV
    /\ ret = Ok(TRUE)

\* Every supplied mask tensor has leading dimension 1.
C6_MasksOk ==
    \/ args.feature_mask.kind = "None"
    \/ \A i \in 1..Len(args.feature_mask.items) : args.feature_mask.items[i].shape[1] = 1

\* C6: in aggregate mode the call fails unless perturbations_per_eval = 1 and
\* every supplied mask tensor has leading dimension 1, so true is never
\* returned otherwise; in per-example mode neither is constrained.
C6_AggregateConstraints ==
    IsDone("_find_output_mode_and_verify") =>
        /\ C5_Aggregate =>
              IF args.perturbations_per_eval = 1 /\ C6_MasksOk
              THEN ret = Ok(TRUE)
              ELSE ret.status = "AssertionError"
        /\ (ret.status = "ok" /\ ret.value = TRUE) =>
              args.perturbations_per_eval = 1 /\ C6_MasksOk
        /\ (~C5_Aggregate /\ C5_FirstSliceSingle) => ret = Ok(FALSE)
        /\ (~C5_Aggregate /\ ret.status # "ok") => ret = TargetFailure

\* C6 witness: aggregate mode refused for a mask with a batch dimension of 2,
\* with perturbations_per_eval = 1.
C6_Witness ==
    /\ IsDone("_find_output_mode_and_verify")
    /\ C5_Aggregate
    /\ args.perturbations_per_eval = 1
    /\ ~C6_MasksOk
    /\ ret.status = "AssertionError"

\* C7: _call_custom_attribution_func calls a function of declared arity 1, 2,
\* 3 exactly once, with (multipliers), (multipliers, inputs), (multipliers,
\* inputs, baselines), and returns its result unchanged or lets its failure
\* through; arity 0 or > 3, or a non-callable, raises without a call.
C7_ArityDispatch ==
    IsDone("_call_custom_attribution_func") =>
        LET f   == args.custom_attribution_func
            all == <<args.multipliers, args.inputs, args.baselines>>
        IN  IF f.kind = "callable" /\ f.nparams >= 1 /\ f.nparams <= 3
            THEN /\ Len(calls) = 1
                 /\ calls[1].fn = f
                 /\ calls[1].args = SubSeq(all, 1, f.nparams)
                 /\ f.nparams = 2 => calls[1].args = <<args.multipliers, args.inputs>>
                 /\ ret = IF f.raises
                          THEN Raise("CalleeError", "raised by the callable")
                          ELSE Ok(f.returns)
            ELSE /\ calls = <<>>
                 /\ ret.status = "AssertionError"

\* C7 witness: a 2-parameter function called with the multipliers and the
\* inputs, the baselines being a different value.
C7_Witness ==
    /\ IsDone("_call_custom_attribution_func")
    /\ args.custom_attribution_func.kind = "callable"
    /\ args.custom_attribution_func.nparams = 2
    /\ args.baselines # args.inputs
    /\ args.baselines # args.multipliers
    /\ args.inputs # args.multipliers
    /\ Len(calls) = 1
    /\ ret.status = "ok"

FinalizeOps == {"_format_attributions", "_compute_conv_delta_and_format_attrs"}

DeltaRequested ==
    op = "_compute_conv_delta_and_format_attrs" /\ args.return_convergence_delta

\* The attributions the caller receives, when the call returns.
FormattedAttributions == IF DeltaRequested THEN ret.value[1] ELSE ret.value

\* C8: with is_tuple false and one attribution the caller receives that
\* tensor; with is_tuple true the tuple as it is; with is_tuple false and a
\* length other than 1 an assertion failure.  compute_convergence_delta is
\* called exactly once when the delta is requested, the result then being the
\* pair (formatted attributions, delta), and never otherwise.
C8_Finalize ==
    (pc = "done" /\ op \in FinalizeOps /\ args.attributions.kind = "tuple") =>
        /\ (~args.is_inputs_tuple /\ Len(args.attributions.items) = 1) =>
              ret.status = "ok" /\ FormattedAttributions = args.attributions.items[1]
        /\ args.is_inputs_tuple =>
              ret.status = "ok" /\ FormattedAttributions = args.attributions
        /\ (~args.is_inputs_tuple /\ Len(args.attributions.items) # 1) =>
              ret.status = "AssertionError"
        /\ IF DeltaRequested
           THEN /\ Len(calls) = 1
                /\ calls[1].fn = "compute_convergence_delta"
                /\ calls[1].args = <<args.attributions, args.start_point, args.end_point,
                                     args.additional_forward_args, args.target>>
                /\ ret.status = "ok" =>
                      /\ Len(ret.value) = 2
                      /\ ret.value[2] = args.attr_algo.delta
           ELSE calls = <<>>

\* C8 witness: a single-tensor caller receiving the bare tensor with the delta.
C8_Witness ==
    /\ IsDone("_compute_conv_delta_and_format_attrs")
    /\ args.return_convergence_delta
    /\ ~args.is_inputs_tuple
    /\ args.attributions.kind = "tuple"
    /\ Len(args.attributions.items) = 1
    /\ ret = Ok(<<args.attributions.items[1], args.attr_algo.delta>>)

Ones(n) == Tuple([i \in 1..n |-> IntV(1)])

\* An entry that is an integer or a tuple as long as the input's non-batch rank.
C9_EntryOk(entry, input) ==
    \/ entry.kind = "int"
    \/ entry.kind = "tuple" /\ Len(entry.items) = Len(input.shape) - 1

C9_Verified(s) ==
    /\ s.kind = "tuple"
    /\ Len(s.items) = Len(args.inputs)
    /\ \A i \in 1..Len(args.inputs) : C9_EntryOk(s.items[i], args.inputs[i])

\* The call returns s when s passes the verification and fails when not.
C9_Outcome(s) == IF C9_Verified(s) THEN ret = Ok(s) ELSE ret.status = "AssertionError"

\* The normalization as claimed: only a non-tuple is promoted.
C9_ClaimedNormal ==
    LET s1 == IF args.strides.kind = "None" THEN Ones(Len(args.inputs)) ELSE args.strides
    IN  IF Len(args.inputs) = 1 /\ s1.kind # "tuple" THEN Tuple(<<s1>>) ELSE s1

\* The normalization of the code: with one input, everything but a length-1
\* tuple is promoted.
C9_Normal ==
    LET s1 == IF args.strides.kind = "None" THEN Ones(Len(args.inputs)) ELSE args.strides
    IN  IF Len(args.inputs) = 1 /\ ~(s1.kind = "tuple" /\ Len(s1.items) = 1)
        THEN Tuple(<<s1>>)
        ELSE s1

\* C9 as stated: absent strides become a 1 per input; with exactly one input
\* a non-tuple value, and only that, is promoted to a length-1 tuple; the call
\* then succeeds exactly when the value is a tuple as long as the inputs whose
\* entries are integers or tuples of the input's non-batch rank.  With one
\* input a caller tuple of another length than 1 therefore fails.
C9_TupleNotPromoted ==
    IsDone("_format_and_verify_strides") =>
        /\ C9_Outcome(C9_ClaimedNormal)
        /\ ( /\ Len(args.inputs) = 1
             /\ args.strides.kind = "tuple"
             /\ Len(args.strides.items) # 1 )
           => ret.status = "AssertionError"

\* C9 amended: absent strides become a 1 per input; with exactly one input
\* every value other than a length-1 tuple (a non-tuple, and also a tuple of
\* another length) is promoted to a length-1 tuple; the call then succeeds,
\* returning the normalized value, exactly when that is a tuple as long as the
\* inputs whose entries are integers or tuples of the input's non-batch rank.
\* With one input, (2, 3) becomes ((2, 3),) and succeeds exactly when the
\* input's non-batch rank is 2.
C9_StridesNormalized ==
    IsDone("_format_and_verify_strides") =>
        /\ C9_Outcome(C9_Normal)
        /\ args.strides.kind = "None" => ret = Ok(Ones(Len(args.inputs)))
        /\ (Len(args.inputs) = 1 /\ args.strides = Tuple(<<IntV(2), IntV(3)>>)) =>
              IF Len(args.inputs[1].shape) - 1 = 2
              THEN ret = Ok(Tuple(<<args.strides>>))
              ELSE ret.status = "AssertionError"

\* C9 witness: one input of non-batch rank 2 and strides (2, 3), accepted.
C9_Witness ==
    /\ IsDone("_format_and_verify_strides")
    /\ Len(args.inputs) = 1
    /\ Len(args.inputs[1].shape) = 3
    /\ args.strides = Tuple(<<IntV(2), IntV(3)>>)
    /\ ret = Ok(Tuple(<<Tuple(<<IntV(2), IntV(3)>>)>>))

\* Row r (from 0) of a tensor whose rows hold n elements each.
C10_Row(t, r, n) == SubSeq(t.data, (r * n) + 1, (r + 1) * n)

\* C10: for a flat tensor of num_steps blocks of num_examples rows of shape F,
\* _reshape_and_sum returns a tensor of shape (num_examples, *F) whose entry
\* (e, f) is the sum over the steps s of row s * num_examples + e at f.
C10_SumOverSteps ==
    IsDone("_reshape_and_sum") =>
        LET t == args.tensor_input
            S == args.num_steps
            E == args.num_examples
            n == Numel(args.layer_size)
        IN  /\ ret.status = "ok"
            /\ ret.value.shape = <<E>> \o args.layer_size
            /\ Len(ret.value.data) = E * n
            /\ \A e \in 0..(E - 1), f \in 1..n :
                  ret.value.data[(e * n) + f] =
                      SumTo([s \in 1..S |-> C10_Row(t, ((s - 1) * E) + e, n)[f]], S)

\* C10 witness: steps = 3, examples = 2, F = (4,), elements 1..24: example 1's
\* first feature sums rows 1, 3 and 5 (5 + 13 + 21).
C10_Witness ==
    /\ IsDone("_reshape_and_sum")
    /\ args.num_steps = 3
    /\ args.num_examples = 2
    /\ args.layer_size = <<4>>
    /\ args.tensor_input.data = [i \in 1..24 |-> i]
    /\ ret.status = "ok"
    /\ ret.value.data = <<27, 30, 33, 36, 39, 42, 45, 48>>

====
